---- MODULE Spec2Model ----
(***************************************************************************)
(* Model of the Haiku fan bridge: the SenseMe UDP session                  *)
(* (backend/senseme_client.py), the state cache, the REST and MQTT        *)
(* command handlers and the poller (backend/main.py), and the publish     *)
(* sink (backend/mqtt_client.py).                                         *)
(*                                                                         *)
(* Optional[...] values are sets of at most one element: {} is None.      *)
(* A datagram is a sequence of tokens: "(", ")", ";" and field texts.     *)
(***************************************************************************)
EXTENDS Integers, Sequences, FiniteSets, TLC

\* ------------------------------------------------------------------ bounds

\* Network faults in one run: outages of the fan, stray or late datagrams.
MaxFaults == 1
\* REST requests, MQTT messages and passes of the poller in one run.
MaxOps == 2
\* Datagrams the socket's receive queue holds.
RxCap == 2

\* --------------------------------------------------------------- constants

DEFAULT_LIGHT_LEVEL == 16
MaxSpeed == 7
MaxLevel == 16

Free == "free"
ProgramThreads == {"poller", "rest", "mqtt"}
Threads == ProgramThreads \cup {"main", "api"}

Keys == <<"name", "power", "speed", "whoosh", "light_power", "light_level">>

\* ------------------------------------------------------- text and numbers

\* NumTok[i + 1] is the decimal text of i, for i in 0..16.
NumTok ==
    <<"0", "1", "2", "3", "4", "5", "6", "7", "8", "9", "10",
      "11", "12", "13", "14", "15", "16">>

\* The other texts int() accepts in this model.
OtherNum == {"17", "50", "99", "-1"}

IsInt(tok) ==
    \/ \E i \in 1..Len(NumTok) : NumTok[i] = tok
    \/ tok \in OtherNum

\* int(tok), for a text with IsInt(tok).
IntOf(tok) ==
    IF \E i \in 1..Len(NumTok) : NumTok[i] = tok
      THEN (CHOOSE i \in 1..Len(NumTok) : NumTok[i] = tok) - 1
      ELSE IF tok = "17" THEN 17
      ELSE IF tok = "50" THEN 50
      ELSE IF tok = "99" THEN 99
      ELSE 0 - 1

\* str(n), the text an f-string gives for an integer.
ToStr(n) ==
    IF n \in 0..(Len(NumTok) - 1) THEN NumTok[n + 1]
    ELSE CHOOSE tok \in OtherNum : IntOf(tok) = n

\* str.upper() on the payload texts of the model.
Upper(s) ==
    IF s = "on" THEN "ON" ELSE IF s = "off" THEN "OFF"
    ELSE IF s = "toggle" THEN "TOGGLE" ELSE s

\* A conversion to raw speed that scales by one step too many.
PercentToRawSpeedWide(p) == (p * 8 + 50) \div 100

\* A conversion to raw light level that drops the rounding term.
PercentToRawLightFloor(p) == (p * 16) \div 100

\* mqtt_utils.py
percentage_to_raw_speed(p) == (p * 7 + 50) \div 100
percentage_to_raw_light(p) == (p * 16 + 50) \div 100
raw_to_percentage_speed(r) == (r * 100 + 3) \div 7
raw_to_percentage_light(r) == (r * 100 + 8) \div 16

\* ------------------------------------------------------------------ frames

RECURSIVE Join(_)
\* fields joined with ";" tokens; an empty field contributes no token.
Join(fields) ==
    IF fields = <<>> THEN <<>>
    ELSE IF Len(fields) = 1 THEN fields[1]
    ELSE fields[1] \o <<";">> \o Join(Tail(fields))

\* The reply datagram "(f1;f2;...)" for one-token fields.
Frame(texts) ==
    <<"(">> \o Join([i \in 1..Len(texts) |-> <<texts[i]>>]) \o <<")">>

IsParen(tok) == tok \in {"(", ")"}

RECURSIVE LStrip(_)
LStrip(s) ==
    IF s # <<>> /\ IsParen(Head(s)) THEN LStrip(Tail(s)) ELSE s

RECURSIVE RStrip(_)
RStrip(s) ==
    IF s # <<>> /\ IsParen(s[Len(s)])
      THEN RStrip(SubSeq(s, 1, Len(s) - 1))
      ELSE s

\* str.strip("()")
Strip(s) == RStrip(LStrip(s))

RECURSIVE SplitAcc(_, _)
\* str.split(";"): acc is the field being read.
SplitAcc(s, acc) ==
    IF s = <<>> THEN <<acc>>
    ELSE IF Head(s) = ";" THEN <<acc>> \o SplitAcc(Tail(s), <<>>)
    ELSE SplitAcc(Tail(s), Append(acc, Head(s)))

Split(s) == SplitAcc(s, <<>>)

\* A field as a Python string: "" when empty, else its text.
FieldStr(f) == IF f = <<>> THEN "" ELSE f[1]

\* response.strip("()").split(";")
Parts(response) == Split(Strip(response))

\* parts[i] of a getter, or None: `if response:` and `len(parts) >= n`.
\* resp is Optional[frame]; idx is the 0-based Python index.
StrField(resp, n, idx) ==
    UNION { IF response = <<>> THEN {}
            ELSE { FieldStr(parts[idx + 1]) :
                     parts \in {p \in {Parts(response)} : Len(p) >= n} } :
            response \in resp }

\* int(parts[i]) of a getter, None on ValueError.
IntField(resp, n, idx) ==
    { IntOf(tok) : tok \in {f \in StrField(resp, n, idx) : IsInt(f)} }

\* ------------------------------------------------------------------ state

VARIABLES
    connected,          \* SenseMeClient.connected
    socket,             \* SenseMeClient.socket is not None
    lock,               \* holder of SenseMeClient._lock, or Free
    fan_name,           \* SenseMeClient.fan_name (Optional[str])
    last_light_level,   \* SenseMeClient._last_light_level
    dev,                \* the fan: power, speed, whoosh, light level
    rx,                 \* datagrams on their way to, or queued on, the socket
    fan_states,         \* main.fan_states, a dict
    polling_active,     \* main.polling_active
    mqtt_connected,     \* MQTTPublisher.connected
    th,                 \* per thread: position, locals, the call in progress
    reachable,          \* the fan is on the network
    faults,             \* network faults so far
    ops,                \* requests, messages and poller passes started so far
    off_level           \* history: the level the light had when the direct
                        \* caller last called set_light_power("OFF")

vars ==
    <<connected, socket, lock, fan_name, last_light_level, dev, rx,
      fan_states, polling_active, mqtt_connected, th,
      reachable, faults, ops, off_level>>

envVars == <<reachable, faults, ops, off_level>>

sessionVars == <<connected, socket, lock, fan_name, last_light_level>>
mainVars == <<fan_states, polling_active, mqtt_connected>>

\* ----------------------------------------------------------------- dicts

EmptyMap == [k \in {} |-> {}]

\* d[k] = v on a dict
Put(d, k, v) == [x \in (DOMAIN d) \cup {k} |-> IF x = k THEN v ELSE d[x]]

Some(opt) == CHOOSE x \in opt : TRUE

\* ---------------------------------------------------------------- device

DeviceName == "Fan"

GetPowerCmd == <<"FAN", "PWR", "GET", "ACTUAL">>
GetSpeedCmd == <<"FAN", "SPD", "GET", "ACTUAL">>
GetWhooshCmd == <<"FAN", "WHOOSH", "GET", "ACTUAL">>
GetLevelCmd == <<"LIGHT", "LEVEL", "GET", "ACTUAL">>
SetPowerCmd(state) == <<"FAN", "PWR", state>>
SetSpeedCmd(speed) == <<"FAN", "SPD", "SET", ToStr(speed)>>
SetWhooshCmd(state) == <<"FAN", "WHOOSH", state>>
SetLevelCmd(level) == <<"LIGHT", "LEVEL", "SET", ToStr(level)>>
DiscoveryCmd == <<"ALL", "DEVICE", "ID", "GET">>

IsSet(c) == Len(c) = 4 /\ c[3] = "SET"

\* The fan after it received command c.
DevApply(d, c) ==
    IF c[1] = "FAN" /\ c[2] = "PWR" /\ Len(c) = 3 /\ c[3] \in {"ON", "OFF"}
      THEN [d EXCEPT !.power = c[3]]
    ELSE IF c[1] = "FAN" /\ c[2] = "WHOOSH" /\ Len(c) = 3 /\ c[3] \in {"ON", "OFF"}
      THEN [d EXCEPT !.whoosh = c[3]]
    ELSE IF c[1] = "FAN" /\ c[2] = "SPD" /\ IsSet(c)
      THEN [d EXCEPT !.speed = IntOf(c[4])]
    ELSE IF c[1] = "LIGHT" /\ c[2] = "LEVEL" /\ IsSet(c)
      THEN [d EXCEPT !.level = IntOf(c[4])]
    ELSE d

\* The fan's reply to command c in state d, or {} when it sends none.
DevReply(d, c) ==
    IF c = DiscoveryCmd
      THEN {Frame(<<DeviceName, "DEVICE", "ID", "MAC">>)}
    ELSE IF c[1] = "FAN" /\ c[2] = "PWR"
      THEN IF c[3] \in {"ON", "OFF", "GET"}
             THEN {Frame(<<DeviceName, "FAN", "PWR", d.power>>)}
             ELSE {}
    ELSE IF c[1] = "FAN" /\ c[2] = "WHOOSH"
      THEN IF c[3] \in {"ON", "OFF", "GET"}
             THEN {Frame(<<DeviceName, "FAN", "WHOOSH", "ACTUAL", d.whoosh>>)}
             ELSE {}
    ELSE IF c[1] = "FAN" /\ c[2] = "SPD"
      THEN {Frame(<<DeviceName, "FAN", "SPD", "ACTUAL", ToStr(d.speed)>>)}
    ELSE {Frame(<<DeviceName, "LIGHT", "LEVEL", "ACTUAL", ToStr(d.level)>>)}

\* Datagrams that are not the fan's answer to the request outstanding.
StrayFrames ==
    { Frame(<<DeviceName, "LIGHT", "LEVEL", "ACTUAL", "99">>) }

\* --------------------------------------------------------------- session

\* A lock that any thread acquires at any time.
CanAcquireAlways(l) == TRUE

\* threading.Lock: acquire succeeds only on a free lock.
CanAcquire(l) == l = Free

\* `if not self.fan_name`: None and "" are both falsy.
NameUnknown(name) == name = {} \/ name = {""}

\* A disconnect() that closes the socket and leaves the flag as it is.
DisconnectKeepsFlag(sock, conn) == [socket |-> FALSE, connected |-> conn]

\* disconnect(): [socket, connected] after it.
DisconnectResult(sock, conn) ==
    IF sock THEN [socket |-> FALSE, connected |-> FALSE]
    ELSE [socket |-> sock, connected |-> conn]

\* _discover_fan_name() on a received response, then connect()'s fallback.
DiscoveredName(response) ==
    IF response # <<>> /\ Head(response) = "(" /\ response[Len(response)] = ")"
      THEN LET name == FieldStr(Parts(response)[1]) IN {name}
      ELSE {""}

\* A range check of the speed that forgets the lower end.
SpeedValidUpper(speed) == speed <= MaxSpeed

SpeedValid(speed) == 0 <= speed /\ speed <= MaxSpeed
LevelValid(level) == 0 <= level /\ level <= MaxLevel

\* The token check of set_fan_power / set_fan_whoosh: there is none.
PowerTokenValid(state) == TRUE

Getters ==
    {"get_fan_power", "get_fan_speed", "get_fan_whoosh",
     "get_light_power", "get_light_level"}
Setters ==
    {"set_fan_power", "set_fan_speed", "set_fan_whoosh",
     "set_light_power", "set_light_level"}

\* set_light_level(level): local validation, then the command.
SetLevelCall(level) ==
    IF LevelValid(level)
      THEN [step |-> "io", cmd |-> SetLevelCmd(level)]
      ELSE [step |-> "rejected", cmd |-> <<>>]

\* A session method up to its first send_command: the step it is at and
\* the command it sends. "rejected" is a local `return False`.
CallInit(m, arg, last) ==
    IF m = "get_fan_power" THEN [step |-> "io", cmd |-> GetPowerCmd]
    ELSE IF m = "get_fan_speed" THEN [step |-> "io", cmd |-> GetSpeedCmd]
    ELSE IF m = "get_fan_whoosh" THEN [step |-> "io", cmd |-> GetWhooshCmd]
    ELSE IF m \in {"get_light_level", "get_light_power"}
      THEN [step |-> "io", cmd |-> GetLevelCmd]
    ELSE IF m = "set_fan_power"
      THEN IF PowerTokenValid(arg)
             THEN [step |-> "io", cmd |-> SetPowerCmd(arg)]
             ELSE [step |-> "rejected", cmd |-> <<>>]
    ELSE IF m = "set_fan_whoosh"
      THEN IF PowerTokenValid(arg)
             THEN [step |-> "io", cmd |-> SetWhooshCmd(arg)]
             ELSE [step |-> "rejected", cmd |-> <<>>]
    ELSE IF m = "set_fan_speed"
      THEN IF SpeedValid(IntOf(arg))
             THEN [step |-> "io", cmd |-> SetSpeedCmd(IntOf(arg))]
             ELSE [step |-> "rejected", cmd |-> <<>>]
    ELSE IF m = "set_light_level" THEN SetLevelCall(IntOf(arg))
    ELSE IF arg = "OFF" THEN [step |-> "off_get", cmd |-> GetLevelCmd]
    ELSE IF arg = "ON" THEN SetLevelCall(last)
    ELSE [step |-> "rejected", cmd |-> <<>>]

\* The thread record entering session method m(arg).
Invoke(r, m, arg, last) ==
    LET c == CallInit(m, arg, last) IN
    [r EXCEPT !.m = m, !.marg = arg, !.step = c.step, !.cmd = c.cmd,
              !.io = IF c.step = "rejected" THEN "none" ELSE "wait"]

\* The session method of the thread has returned.
Done(r) == r.step = "rejected" \/ (r.step = "io" /\ r.io = "done")

\* `return response is not None` of the setters.
SetterResult(r) == r.step # "rejected" /\ r.resp # {}

\* get_light_power(): "ON" if level > 0 else "OFF"
LightPowerOf(level) ==
    IF level = {} THEN {} ELSE IF Some(level) > 0 THEN {"ON"} ELSE {"OFF"}

\* The value a getter returns from the response it received.
GetterResult(r) ==
    IF r.m = "get_fan_power" THEN StrField(r.resp, 4, 3)
    ELSE IF r.m = "get_fan_whoosh" THEN StrField(r.resp, 5, 4)
    ELSE IF r.m = "get_light_power" THEN LightPowerOf(IntField(r.resp, 5, 4))
    ELSE IntField(r.resp, 5, 4)

\* set_light_power("OFF"): the level to remember after reading `level`.
Remember(last, level) ==
    IF level # {} /\ Some(level) > 0 THEN Some(level) ELSE last

\* ------------------------------------------------------------ publish sink

\* publish_state(key, value) as the broker sees it; nothing when the
\* publisher is not connected.
PublishOne(conn, key, value) == IF conn THEN << <<key, value>> >> ELSE <<>>

RECURSIVE PublishKeys(_, _)
\* publish_all_states: the loop over states.items(), from key number i.
PublishKeys(states, i) ==
    IF i > Len(Keys) THEN <<>>
    ELSE LET key == Keys[i]
             value == states[key]
             rest == PublishKeys(states, i + 1)
         IN  IF value = {} THEN rest
             ELSE IF key = "speed"
               THEN << <<"speed", {raw_to_percentage_speed(Some(value))}>>,
                       <<"speed_raw", value>> >> \o rest
             ELSE IF key = "light_level"
               THEN << <<"light_level", {raw_to_percentage_light(Some(value))}>>,
                       <<"light_level_raw", value>> >> \o rest
             ELSE << <<key, value>> >> \o rest

\* publish_state past its `connected` check: client.publish and
\* wait_for_publish return (TRUE), or one of them raises and publish_state
\* returns False (FALSE).
SinkOutcomes == {TRUE, FALSE}

\* What the publish_state calls of a handler returned: the handler calls
\* none when the publisher is not connected.
SinkResults(conn, oks) == IF conn THEN oks ELSE <<>>

\* publish_all_states(states)
PublishAll(conn, states) ==
    IF conn THEN PublishKeys(states, 1) \o << <<"state", states>> >> ELSE <<>>

\* ---------------------------------------------------------------- handlers

Kinds == {"power", "speed", "light_power", "light_level"}

SetterOf(kind) ==
    IF kind = "power" THEN "set_fan_power"
    ELSE IF kind = "speed" THEN "set_fan_speed"
    ELSE IF kind = "light_power" THEN "set_light_power"
    ELSE "set_light_level"

GetterOf(kind) ==
    IF kind = "power" THEN "get_fan_power"
    ELSE IF kind = "speed" THEN "get_fan_speed"
    ELSE IF kind = "whoosh" THEN "get_fan_whoosh"
    ELSE IF kind = "light_power" THEN "get_light_power"
    ELSE "get_light_level"

\* Request bodies a REST client sends, per kind.
RestBodies(kind) ==
    IF kind = "power" THEN {"OFF"}
    ELSE IF kind = "light_power" THEN {"ON", "OFF"}
    ELSE IF kind = "speed" THEN {"4", "8"}
    ELSE {"5"}

\* Payloads an MQTT client publishes on the command topics, per kind.
MqttPayloads(kind) ==
    IF kind = "power" THEN {"off"}
    ELSE IF kind = "light_power" THEN {"on", "OFF"}
    ELSE IF kind = "speed" THEN {"4", "50"}
    ELSE {"5", "50"}

\* The pydantic request models: PowerRequest, SpeedRequest, ...
RestValid(kind, body) ==
    IF kind \in {"power", "light_power"} THEN body \in {"ON", "OFF"}
    ELSE IF kind = "speed"
      THEN IsInt(body) /\ 0 <= IntOf(body) /\ IntOf(body) <= 7
    ELSE IsInt(body) /\ 0 <= IntOf(body) /\ IntOf(body) <= 16

\* The payload checks of handle_mqtt_*.
MqttValid(kind, payload) ==
    IF kind \in {"power", "light_power"} THEN Upper(payload) \in {"ON", "OFF"}
    ELSE IF kind = "speed"
      THEN IsInt(payload) /\ 0 <= IntOf(payload) /\ IntOf(payload) <= 7
    ELSE IsInt(payload) /\ 0 <= IntOf(payload) /\ IntOf(payload) <= 16

\* The argument handle_mqtt_* passes to the setter.
MqttArg(kind, payload) ==
    IF kind \in {"power", "light_power"} THEN Upper(payload)
    ELSE ToStr(IntOf(payload))

\* `success = senseme_client.set_...(...)`: what the setter returned.
SuccessOf(r) == IF SetterResult(r) THEN "True" ELSE "False"

\* A handler that goes on whatever the setter returned.
SetterOkAlways(r) == TRUE

\* `if success:` / `if not success:` of a handler.
SetterOk(r) == SetterResult(r)

\* The session call of the thread is over: its step and io are cleared.
Settle(r) == [r EXCEPT !.step = "none", !.io = "none"]

\* A REST POST handler from the return of a session call to its next
\* session call, its cache patch or its end.
RestContinue(r, last) ==
    IF r.pc = "set"
      THEN IF SetterOk(r)
             THEN Invoke([r EXCEPT !.pc = "get1", !.success = SuccessOf(r)],
                         GetterOf(r.kind), "", last)
             ELSE Settle([r EXCEPT !.pc = "done", !.success = SuccessOf(r),
                                   !.outcome = "500"])
    ELSE IF r.pc = "get1"
      THEN IF r.kind = "light_power"
             THEN Invoke([r EXCEPT !.pc = "get2",
                                   !.snap = Put(r.snap, "light_power", GetterResult(r))],
                         "get_light_level", "", last)
             ELSE Settle([r EXCEPT !.pc = "patch",
                                   !.snap = Put(r.snap, r.kind, GetterResult(r))])
    ELSE Settle([r EXCEPT !.pc = "patch",
                          !.snap = Put(r.snap, "light_level", GetterResult(r))])

\* update_state_and_publish: `if state_value is not None`.
ReadBackOk(v) == v # {}

\* The outcome an MQTT handler logs from its first read-back.
MqttOutcome(r) ==
    IF r.snap[r.kind] # {} THEN "ok" ELSE "read_failed"

\* handle_mqtt_light_power after its first update_state_and_publish, any
\* other handler at its end.
MqttAfterUpdate(r, last) ==
    IF r.kind = "light_power" /\ r.pc \in {"get1", "patch1"}
      THEN Invoke([r EXCEPT !.pc = "get2"], "get_light_level", "", last)
      ELSE Settle([r EXCEPT !.pc = "done", !.outcome = MqttOutcome(r)])

\* An MQTT handler from the return of a session call to its next session
\* call, its cache patch or its end.
MqttContinue(r, last) ==
    IF r.pc = "set"
      THEN IF SetterOk(r)
             THEN Invoke([r EXCEPT !.pc = "get1", !.success = SuccessOf(r)],
                         GetterOf(r.kind), "", last)
             ELSE Settle([r EXCEPT !.pc = "done", !.success = SuccessOf(r),
                                   !.outcome = "set_failed"])
    ELSE LET key == IF r.pc = "get1" THEN r.kind ELSE "light_level"
             v == GetterResult(r)
             got == [r EXCEPT !.snap = Put(r.snap, key, v)]
         IN  IF ReadBackOk(v)
               THEN Settle([got EXCEPT !.pc = IF r.pc = "get1" THEN "patch1" ELSE "patch2"])
               ELSE MqttAfterUpdate(got, last)

\* The key get_all_states reads after `key`, "" after the last.
NextKey(key) ==
    IF key = "power" THEN "speed"
    ELSE IF key = "speed" THEN "whoosh"
    ELSE IF key = "whoosh" THEN "light_power"
    ELSE IF key = "light_power" THEN "light_level"
    ELSE ""

\* get_all_states: one getter returned, the next is called.
PollContinue(r, last) ==
    LET got == [r EXCEPT !.snap = Put(r.snap, r.kind, GetterResult(r))] IN
    IF NextKey(r.kind) = ""
      THEN Settle([got EXCEPT !.pc = "store"])
      ELSE Invoke([got EXCEPT !.kind = NextKey(r.kind)],
                  GetterOf(NextKey(r.kind)), "", last)

\* A direct caller of the session: the method returned.
ApiContinue(r) ==
    Settle([r EXCEPT !.pc = "done",
                     !.outcome = IF r.m \in Getters THEN "value"
                                 ELSE IF SetterResult(r) THEN "True" ELSE "False",
                     !.snap = IF r.m \in Getters
                                THEN Put(EmptyMap, "value", GetterResult(r))
                                ELSE EmptyMap])

RECURSIVE Advance(_, _, _)
\* Thread t runs on from record r to its next step on shared state.
Advance(t, r, last) ==
    IF Done(r) /\ r.pc \in {"set", "get1", "get2", "poll", "call"}
      THEN Advance(t,
                   IF t = "rest" THEN RestContinue(r, last)
                   ELSE IF t = "mqtt" THEN MqttContinue(r, last)
                   ELSE IF t = "poller" THEN PollContinue(r, last)
                   ELSE ApiContinue(r),
                   last)
      ELSE r

\* ------------------------------------------------------------ initial state

Idle ==
    [pc |-> "idle", kind |-> "", arg |-> "", m |-> "", marg |-> "",
     step |-> "none", io |-> "none", cmd |-> <<>>, resp |-> {},
     success |-> "", snap |-> EmptyMap, wrote |-> EmptyMap, pubs |-> <<>>,
     outcome |-> "", ret |-> {}, sink |-> <<>>, frame |-> <<>>,
     holds |-> FALSE]

\* The fan when the bridge starts.
InitialDevices ==
    { [power |-> "ON", speed |-> 2, whoosh |-> "OFF", level |-> 10] }

\* FAN_NAME: unset (discovered at connect) or set.
ConfiguredNames == {{}, {DeviceName}}

Init ==
    /\ connected = FALSE
    /\ socket = FALSE
    /\ lock = Free
    /\ fan_name \in ConfiguredNames
    /\ last_light_level = DEFAULT_LIGHT_LEVEL
    /\ dev \in InitialDevices
    /\ rx = <<>>
    /\ fan_states = EmptyMap
    /\ polling_active = FALSE
    /\ mqtt_connected = FALSE
    /\ th = [t \in Threads |-> IF t = "main" THEN [Idle EXCEPT !.pc = "boot"] ELSE Idle]
    /\ reachable = TRUE
    /\ faults = 0
    /\ ops = 0
    /\ off_level = {}

Up == th["main"].pc = "up"

\* ------------------------------------------------------------- environment

\* Whether the fan is on the network at a send, and the faults so far:
\* as before, or after an outage began (a fault) or ended.
ReachNow ==
    {<<reachable, faults>>}
      \cup (IF reachable /\ faults < MaxFaults THEN {<<FALSE, faults + 1>>} ELSE {})
      \cup (IF ~reachable THEN {<<TRUE, faults>>} ELSE {})

\* A datagram arrives for the socket; a full queue drops it.
Enqueue(q, reply) ==
    IF reply = {} \/ Len(q) >= RxCap THEN q ELSE Append(q, Some(reply))

\* A datagram that is not a framed reply.
UnframedReplies == { Join(<<<<DeviceName>>, <<"DEVICE">>, <<"ID">>>>) }

\* A connect() that keeps None for a name it did not discover.
DiscoverOutcomesNoFallback(q, f) ==
    (IF q # <<>>
       THEN {[name |-> DiscoveredName(Head(q)), rx |-> Tail(q), faults |-> f]}
       ELSE {[name |-> {}, rx |-> q, faults |-> f]})
      \cup (IF f < MaxFaults
              THEN {[name |-> {}, rx |-> q, faults |-> f + 1]}
              ELSE {})

\* What _discover_fan_name's recvfrom can do on queue q after f faults:
\* the name connect() ends with, the queue and the faults after it. The
\* reply is read, or nothing arrives in time, or (a fault) the reply is
\* lost or a datagram that is not a framed reply arrives first.
DiscoverOutcomes(q, f) ==
    (IF q # <<>>
       THEN {[name |-> DiscoveredName(Head(q)), rx |-> Tail(q), faults |-> f]}
       ELSE {[name |-> {""}, rx |-> q, faults |-> f]})
      \cup (IF q # <<>> /\ f < MaxFaults
              THEN {[name |-> {""}, rx |-> q, faults |-> f + 1]}
              ELSE {})
      \cup (IF f < MaxFaults
              THEN {[name |-> DiscoveredName(g), rx |-> q, faults |-> f + 1] :
                      g \in UnframedReplies}
              ELSE {})

\* The text an f-string gives for fan_name: "None", nothing, or the name.
NameText(name) ==
    IF name = {} THEN <<"None">> ELSE IF name = {""} THEN <<>> ELSE <<Some(name)>>

\* full_command = f"<{self.fan_name};{command}>"
FullCommand(name, command) ==
    <<"<">> \o NameText(name) \o <<";">>
      \o Join([i \in 1..Len(command) |-> <<command[i]>>]) \o <<">">>

\* The thread record with the datagram its send_command passes to sendto.
WithFrame(r, name) == [r EXCEPT !.frame = FullCommand(name, r.cmd)]

\* ------------------------------------------------- connect and send_command

\* The `except Exception` branch of send_command for thread record r:
\* disconnect(), release of the lock, return None.
Fail(t, r, sock, conn) ==
    LET d == DisconnectResult(sock, conn) IN
    /\ socket' = d.socket
    /\ connected' = d.connected
    /\ rx' = <<>>
    /\ lock' = Free
    /\ th' = [th EXCEPT ![t] =
          Advance(t, [r EXCEPT !.io = "done", !.resp = {}], last_light_level)]

\* send_command from `try:` to sendto, holding the lock, on a session with
\* socket sock, flag conn and receive queue q; rch: the fan is reachable.
SendNow(t, r, rch, q, sock, conn) ==
    \/ \* the fan receives the datagram and replies, if it replies to it
       /\ sock
       /\ rch
       /\ th' = [th EXCEPT ![t] = [r EXCEPT !.io = "sent"]]
       /\ dev' = DevApply(dev, r.cmd)
       /\ rx' = Enqueue(q, DevReply(dev', r.cmd))
       /\ lock' = t
       /\ socket' = sock
       /\ connected' = conn
    \/ \* the datagram is lost
       /\ sock
       /\ ~rch
       /\ th' = [th EXCEPT ![t] = [r EXCEPT !.io = "sent"]]
       /\ rx' = q
       /\ lock' = t
       /\ socket' = sock
       /\ connected' = conn
       /\ UNCHANGED dev
    \/ \* sendto raises (no route), or there is no socket to send on
       /\ ~sock \/ ~rch
       /\ Fail(t, r, sock, conn)
       /\ UNCHANGED dev

\* lifespan: senseme_client.connect() at startup, before any thread runs.
StartupConnect ==
    /\ th["main"].pc = "boot"
    /\ th["main"].io = "none"
    /\ \E e \in ReachNow :
         /\ reachable' = e[1]
         /\ faults' = e[2]
         /\ \/ \* socket.socket() raises
               /\ ~e[1]
               /\ connected' = FALSE
               /\ th' = [th EXCEPT !["main"].io = "booted"]
               /\ UNCHANGED <<socket, fan_name, rx>>
            \/ \* a name is configured
               /\ ~NameUnknown(fan_name)
               /\ socket' = TRUE
               /\ connected' = TRUE
               /\ th' = [th EXCEPT !["main"].io = "booted"]
               /\ UNCHANGED <<fan_name, rx>>
            \/ \* the discovery request is sent
               /\ NameUnknown(fan_name)
               /\ socket' = TRUE
               /\ connected' = TRUE
               /\ rx' = IF e[1] THEN Enqueue(<<>>, DevReply(dev, DiscoveryCmd)) ELSE <<>>
               /\ th' = [th EXCEPT !["main"].io = "disc"]
               /\ UNCHANGED fan_name
    /\ UNCHANGED <<lock, last_light_level, dev, mainVars, ops, off_level>>

\* lifespan: _discover_fan_name's recvfrom during the startup connect().
StartupDiscover ==
    /\ th["main"].io = "disc"
    /\ \E o \in DiscoverOutcomes(rx, faults) :
         /\ fan_name' = o.name
         /\ rx' = o.rx
         /\ faults' = o.faults
    /\ th' = [th EXCEPT !["main"].io = "booted"]
    /\ UNCHANGED <<connected, socket, lock, last_light_level, dev, mainVars,
                   reachable, ops, off_level>>

\* lifespan: the polling thread starts, requests are served.
StartThreads ==
    /\ th["main"].pc = "boot"
    /\ th["main"].io = "booted"
    /\ th' = [th EXCEPT !["main"].pc = "up", !["main"].io = "none"]
    /\ polling_active' = TRUE
    /\ UNCHANGED <<sessionVars, dev, rx, fan_states, mqtt_connected, envVars>>

\* send_command: `with self._lock`, `if not self.connected: connect()`,
\* then the frame is sent.
CallStep(t) ==
    LET r == th[t] IN
    /\ r.io = "wait"
    /\ CanAcquire(lock)
    /\ \E e \in ReachNow :
         /\ reachable' = e[1]
         /\ faults' = e[2]
         /\ \/ /\ connected
               /\ SendNow(t, WithFrame(r, fan_name), e[1], rx, socket, connected)
               /\ UNCHANGED fan_name
            \/ \* connect(), a name is known
               /\ ~connected
               /\ ~NameUnknown(fan_name)
               /\ SendNow(t, WithFrame(r, fan_name), e[1], <<>>, TRUE, TRUE)
               /\ UNCHANGED fan_name
            \/ \* connect(), the discovery request is sent
               /\ ~connected
               /\ NameUnknown(fan_name)
               /\ socket' = TRUE
               /\ connected' = TRUE
               /\ rx' = IF e[1] THEN Enqueue(<<>>, DevReply(dev, DiscoveryCmd)) ELSE <<>>
               /\ lock' = t
               /\ th' = [th EXCEPT ![t].io = "disc"]
               /\ UNCHANGED <<fan_name, dev>>
            \/ \* connect() fails on socket.socket(): return None
               /\ ~connected
               /\ ~e[1]
               /\ connected' = FALSE
               /\ th' = [th EXCEPT ![t] =
                     Advance(t, [r EXCEPT !.io = "done", !.resp = {}], last_light_level)]
               /\ UNCHANGED <<socket, lock, fan_name, rx, dev>>
    /\ UNCHANGED <<last_light_level, mainVars, ops, off_level>>

\* send_command's connect(): _discover_fan_name's recvfrom, then the frame
\* is sent.
DiscoverRecv(t) ==
    LET r == th[t] IN
    /\ t # "main"
    /\ r.io = "disc"
    /\ \E o \in DiscoverOutcomes(rx, faults) :
         /\ fan_name' = o.name
         /\ faults' = o.faults
         /\ SendNow(t, WithFrame(r, o.name), reachable, o.rx, socket, connected)
    /\ UNCHANGED <<last_light_level, mainVars, reachable, ops, off_level>>

\* send_command: recvfrom, decode, the release of the lock.
Receive(t) ==
    LET r == th[t] IN
    /\ r.io = "sent"
    /\ \/ /\ rx # <<>>
          /\ th' = [th EXCEPT ![t] =
                Advance(t, [r EXCEPT !.io = "done", !.resp = {Head(rx)}],
                        last_light_level)]
          /\ rx' = Tail(rx)
          /\ lock' = Free
          /\ UNCHANGED <<connected, socket, reachable, faults>>
       \/ \* a datagram that is not the fan's answer arrives first
          /\ faults < MaxFaults
          /\ \E g \in StrayFrames :
               th' = [th EXCEPT ![t] =
                   Advance(t, [r EXCEPT !.io = "done", !.resp = {g}],
                           last_light_level)]
          /\ faults' = faults + 1
          /\ lock' = Free
          /\ UNCHANGED <<connected, socket, rx, reachable>>
       \/ \* socket.timeout: nothing arrived
          /\ rx = <<>>
          /\ Fail(t, r, socket, connected)
          /\ UNCHANGED <<reachable, faults>>
       \/ \* socket.timeout: the fan dropped off the network, the reply is lost
          /\ rx # <<>>
          /\ reachable
          /\ faults < MaxFaults
          /\ reachable' = FALSE
          /\ faults' = faults + 1
          /\ Fail(t, r, socket, connected)
    /\ UNCHANGED <<fan_name, last_light_level, dev, mainVars, ops, off_level>>

\* set_light_power("OFF"): remember the level read, then set_light_level(0).
OffRemember(t) ==
    LET r == th[t] IN
    /\ r.step = "off_get"
    /\ r.io = "done"
    /\ last_light_level' = Remember(last_light_level, IntField(r.resp, 5, 4))
    /\ th' = [th EXCEPT ![t] =
          Advance(t, [r EXCEPT !.step = SetLevelCall(0).step,
                               !.cmd = SetLevelCall(0).cmd,
                               !.io = "wait"],
                  last_light_level')]
    /\ UNCHANGED <<connected, socket, lock, fan_name, dev, rx, mainVars, envVars>>

\* ------------------------------------------------------------ REST handlers

\* A REST POST handler up to its call of the device setter.
RestRequest(kind, body) ==
    /\ Up
    /\ th["rest"].pc = "idle"
    /\ ops < MaxOps
    /\ ops' = ops + 1
    /\ IF RestValid(kind, body)
         THEN th' = [th EXCEPT !["rest"] =
                  Advance("rest",
                          Invoke([@ EXCEPT !.pc = "set", !.kind = kind, !.arg = body],
                                 SetterOf(kind), body, last_light_level),
                          last_light_level)]
         ELSE th' = [th EXCEPT !["rest"] =
                  [@ EXCEPT !.pc = "done", !.kind = kind, !.arg = body,
                            !.outcome = "422"]]
    /\ UNCHANGED <<sessionVars, dev, rx, mainVars, reachable, faults, off_level>>

\* The keys a REST handler patches, in order.
RestKeys(kind) ==
    IF kind = "light_power" THEN <<"light_power", "light_level">> ELSE <<kind>>

RECURSIVE PatchAll(_, _, _)
\* d[k] = values[k] for every k of keys
PatchAll(d, keys, values) ==
    IF keys = <<>> THEN d
    ELSE PatchAll(Put(d, Head(keys), values[Head(keys)]), Tail(keys), values)

RECURSIVE PublishEach(_, _, _, _)
\* publish_state(k, values[k]) for every k of keys; oks: which of the
\* calls get their message out.
PublishEach(conn, oks, keys, values) ==
    IF keys = <<>> THEN <<>>
    ELSE PublishOne(conn /\ Head(oks), Head(keys), values[Head(keys)])
           \o PublishEach(conn, Tail(oks), Tail(keys), values)

\* A POST handler that answers by what publish_state returned.
RestOutcomeStrict(results) ==
    IF \A i \in 1..Len(results) : results[i] THEN "200" ELSE "500"

\* The status of a POST handler after its publish_state calls: their
\* results are not looked at.
RestOutcome(results) == "200"

\* The value in the body of a POST handler's 200 response:
\* `return {"success": True, "speed": request.speed}`.
RestReturned(kind, body) ==
    IF kind \in {"speed", "light_level"} THEN {IntOf(body)} ELSE {body}

\* REST: `with fan_states_lock:` the patch of the read-back values, then
\* publish_state for each of them, then the response.
RestPatch ==
    LET r == th["rest"] IN
    /\ r.pc = "patch"
    /\ fan_states' = PatchAll(fan_states, RestKeys(r.kind), r.snap)
    /\ \E oks \in [1..Len(RestKeys(r.kind)) -> SinkOutcomes] :
         th' = [th EXCEPT !["rest"] =
          [r EXCEPT !.pc = "done", !.holds = FALSE,
                    !.outcome = RestOutcome(SinkResults(mqtt_connected, oks)),
                    !.ret = RestReturned(r.kind, r.arg),
                    !.wrote = PatchAll(r.wrote, RestKeys(r.kind), r.snap),
                    !.sink = SinkResults(mqtt_connected, oks),
                    !.pubs = PublishEach(mqtt_connected, oks, RestKeys(r.kind), r.snap)]]
    /\ UNCHANGED <<sessionVars, dev, rx, polling_active, mqtt_connected, envVars>>

\* fan_states_lock is free: no thread is inside a `with fan_states_lock:`.
CacheLockFree == \A u \in Threads : ~th[u].holds

\* `if not fan_states`: an empty dict is falsy.
CacheEmpty(d) == DOMAIN d = {}

\* GET /api/fan/state: under fan_states_lock, 503 on an empty cache, else a
\* copy of it.
GetFanState ==
    /\ Up
    /\ CacheLockFree
    /\ th["rest"].pc = "idle"
    /\ ops < MaxOps
    /\ ops' = ops + 1
    /\ th' = [th EXCEPT !["rest"] =
          [@ EXCEPT !.pc = "done", !.kind = "state",
                    !.outcome = IF CacheEmpty(fan_states) THEN "503" ELSE "200",
                    !.snap = IF CacheEmpty(fan_states) THEN EmptyMap ELSE fan_states]]
    /\ UNCHANGED <<sessionVars, dev, rx, mainVars, reachable, faults, off_level>>

\* ------------------------------------------------------------ MQTT handlers

\* _on_message and handle_mqtt_* up to the call of the device setter.
MqttMessage(kind, payload) ==
    /\ Up
    /\ mqtt_connected
    /\ th["mqtt"].pc = "idle"
    /\ ops < MaxOps
    /\ ops' = ops + 1
    /\ IF MqttValid(kind, payload)
         THEN th' = [th EXCEPT !["mqtt"] =
                  Advance("mqtt",
                          Invoke([@ EXCEPT !.pc = "set", !.kind = kind, !.arg = payload],
                                 SetterOf(kind), MqttArg(kind, payload),
                                 last_light_level),
                          last_light_level)]
         ELSE th' = [th EXCEPT !["mqtt"] =
                  [@ EXCEPT !.pc = "done", !.kind = kind, !.arg = payload,
                            !.outcome = "invalid"]]
    /\ UNCHANGED <<sessionVars, dev, rx, mainVars, reachable, faults, off_level>>

\* update_state_and_publish: `with fan_states_lock:` the patch of one key,
\* then publish_state; the handler runs on.
MqttPatch ==
    LET r == th["mqtt"]
        key == IF r.pc = "patch1" THEN r.kind ELSE "light_level"
        done(ok) ==
            [r EXCEPT !.wrote = Put(r.wrote, key, r.snap[key]),
                      !.holds = FALSE,
                      !.sink = r.sink \o SinkResults(mqtt_connected, <<ok>>),
                      !.pubs = r.pubs \o PublishOne(mqtt_connected /\ ok, key, r.snap[key])]
    IN
    /\ r.pc \in {"patch1", "patch2"}
    /\ fan_states' = Put(fan_states, key, r.snap[key])
    /\ \E ok \in SinkOutcomes :
         th' = [th EXCEPT !["mqtt"] =
           Advance("mqtt", MqttAfterUpdate(done(ok), last_light_level), last_light_level)]
    /\ UNCHANGED <<sessionVars, dev, rx, polling_active, mqtt_connected, envVars>>

\* ------------------------------------------------------------------ poller

\* poll_fan_states: a pass starts; get_all_states reads the name first.
PollStart ==
    /\ polling_active
    /\ th["poller"].pc = "idle"
    /\ ops < MaxOps
    /\ ops' = ops + 1
    /\ th' = [th EXCEPT !["poller"] =
          Invoke([@ EXCEPT !.pc = "poll", !.kind = "power",
                           !.snap = Put(EmptyMap, "name", fan_name)],
                 "get_fan_power", "", last_light_level)]
    /\ UNCHANGED <<sessionVars, dev, rx, mainVars, reachable, faults, off_level>>

\* The dict poll_fan_states stores for the snapshot it read.
PollSnapshot(cache, new_states) == new_states

\* poll_fan_states: replace the cache under its lock, publish_all_states.
PollStore ==
    LET r == th["poller"] IN
    /\ r.pc = "store"
    /\ fan_states' = PollSnapshot(fan_states, r.snap)
    /\ th' = [th EXCEPT !["poller"] =
          [r EXCEPT !.pc = "done", !.outcome = "polled", !.holds = FALSE,
                    !.wrote = r.snap,
                    !.pubs = PublishAll(mqtt_connected, r.snap)]]
    /\ UNCHANGED <<sessionVars, dev, rx, polling_active, mqtt_connected, envVars>>

\* A handler returns; the poller sleeps until its next pass.
Return(t) ==
    /\ th[t].pc = "done"
    /\ th' = [th EXCEPT ![t] = Idle]
    /\ UNCHANGED <<sessionVars, dev, rx, mainVars, envVars>>

\* _on_connect with rc = 0
BrokerConnect ==
    /\ Up
    /\ ~mqtt_connected
    /\ mqtt_connected' = TRUE
    /\ UNCHANGED <<sessionVars, dev, rx, fan_states, polling_active, th, envVars>>

\* _on_disconnect
BrokerDisconnect ==
    /\ mqtt_connected
    /\ mqtt_connected' = FALSE
    /\ UNCHANGED <<sessionVars, dev, rx, fan_states, polling_active, th, envVars>>

\* ------------------------------------------------------- the session alone

\* Arguments a direct caller passes to the session's methods.
ApiArgs(m) ==
    IF m \in Getters THEN {""}
    ELSE IF m = "set_fan_speed" THEN {"4", "8", "-1"}
    ELSE IF m = "set_light_level" THEN {"5", "17", "-1"}
    ELSE IF m = "set_light_power" THEN {"ON", "OFF", "TOGGLE"}
    ELSE {"ON", "TOGGLE"}

\* A session constructed and used on its own, from one thread.
SessionInit ==
    /\ connected = FALSE
    /\ socket = FALSE
    /\ lock = Free
    /\ fan_name \in ConfiguredNames
    /\ last_light_level = DEFAULT_LIGHT_LEVEL
    /\ dev \in InitialDevices
    /\ rx = <<>>
    /\ fan_states = EmptyMap
    /\ polling_active = FALSE
    /\ mqtt_connected = FALSE
    /\ th = [t \in Threads |-> IF t = "main" THEN [Idle EXCEPT !.pc = "lib"] ELSE Idle]
    /\ reachable = TRUE
    /\ faults = 0
    /\ ops = 0
    /\ off_level = {}

\* The caller calls method m(arg) of the session.
ApiCall(m, arg) ==
    /\ th["main"].pc = "lib"
    /\ th["api"].pc = "idle"
    /\ ops < MaxOps
    /\ ops' = ops + 1
    /\ th' = [th EXCEPT !["api"] =
          Advance("api", Invoke([@ EXCEPT !.pc = "call"], m, arg, last_light_level),
                  last_light_level)]
    /\ off_level' =
          IF m = "set_light_power" /\ arg = "OFF" /\ dev.level > 0 THEN {dev.level}
          ELSE IF m = "set_light_level" THEN {}
          ELSE off_level
    /\ UNCHANGED <<sessionVars, dev, rx, mainVars, reachable, faults>>

SessionNext ==
    \/ \E m \in Getters \cup Setters : \E arg \in ApiArgs(m) : ApiCall(m, arg)
    \/ CallStep("api")
    \/ DiscoverRecv("api")
    \/ Receive("api")
    \/ OffRemember("api")
    \/ Return("api")

SessionSpec == SessionInit /\ [][SessionNext]_vars

\* ----------------------------------------------------------- specification

Next ==
    \/ StartupConnect
    \/ StartupDiscover
    \/ StartThreads
    \/ \E t \in ProgramThreads : CallStep(t)
    \/ \E t \in ProgramThreads : DiscoverRecv(t)
    \/ \E t \in ProgramThreads : Receive(t)
    \/ \E t \in ProgramThreads : OffRemember(t)
    \/ \E kind \in Kinds : \E body \in RestBodies(kind) : RestRequest(kind, body)
    \/ RestPatch
    \/ GetFanState
    \/ \E kind \in Kinds : \E payload \in MqttPayloads(kind) : MqttMessage(kind, payload)
    \/ MqttPatch
    \/ PollStart
    \/ PollStore
    \/ \E t \in ProgramThreads : Return(t)
    \/ BrokerConnect
    \/ BrokerDisconnect

Spec == Init /\ [][Next]_vars

\* ------------------------------------------- the codec and the conversions

\* Reply datagrams handed to the getters: with and without each
\* parenthesis, with five, four or three fields, the last one a number, a
\* word or empty.
ReplyFrames ==
    LET name == <<DeviceName>>
        lists ==
          { <<name, <<"FAN">>, <<"SPD">>, <<"ACTUAL">>, v>> :
              v \in {<<"4">>, <<"ON">>, <<"abc">>, <<>>} }
            \cup { <<name, <<"FAN">>, <<"PWR">>, <<"ON">>>>,
                   <<name, <<"FAN">>, <<"SPD">>>> }
    IN  { open \o Join(fields) \o close :
            open \in {<<"(">>, <<>>}, close \in {<<")">>, <<>>}, fields \in lists }

\* The percentages of the MQTT interface.
Percentages == 0..100

\* The raw values of the device: light levels 0..16, of which 0..7 are
\* also speeds.
RawValues == 0..MaxLevel

\* A response for the getters, a percentage for the conversions to raw, or
\* a raw value for the conversions to percent.
PureInputs ==
    { [Idle EXCEPT !.resp = {f}] : f \in ReplyFrames }
      \cup { [Idle EXCEPT !.ret = {p}] : p \in Percentages }
      \cup { [Idle EXCEPT !.snap = Put(EmptyMap, "raw", {v})] : v \in RawValues }

PureInit ==
    /\ connected = FALSE
    /\ socket = FALSE
    /\ lock = Free
    /\ fan_name = {DeviceName}
    /\ last_light_level = DEFAULT_LIGHT_LEVEL
    /\ dev \in InitialDevices
    /\ rx = <<>>
    /\ fan_states = EmptyMap
    /\ polling_active = FALSE
    /\ mqtt_connected = FALSE
    /\ \E a \in PureInputs :
         th = [t \in Threads |->
                 IF t = "main" THEN [Idle EXCEPT !.pc = "pure"]
                 ELSE IF t = "api" THEN a ELSE Idle]
    /\ reachable = TRUE
    /\ faults = 0
    /\ ops = 0
    /\ off_level = {}

\* Getter m from `if response:` on, for the response send_command returned.
Decode(m) ==
    LET r == th["api"] IN
    /\ th["main"].pc = "pure"
    /\ r.pc = "idle"
    /\ r.resp # {}
    /\ th' = [th EXCEPT !["api"] =
          [r EXCEPT !.pc = "done", !.kind = "decode", !.m = m,
                    !.snap = Put(EmptyMap, "value",
                                 GetterResult([r EXCEPT !.m = m]))]]
    /\ UNCHANGED <<sessionVars, dev, rx, mainVars, envVars>>

\* percentage_to_raw_speed and percentage_to_raw_light of a percentage.
Convert ==
    LET r == th["api"] IN
    /\ th["main"].pc = "pure"
    /\ r.pc = "idle"
    /\ r.ret # {}
    /\ th' = [th EXCEPT !["api"] =
          [r EXCEPT !.pc = "done", !.kind = "convert",
                    !.snap = Put(Put(EmptyMap, "speed",
                                     {percentage_to_raw_speed(Some(r.ret))}),
                                 "light_level",
                                 {percentage_to_raw_light(Some(r.ret))})]]
    /\ UNCHANGED <<sessionVars, dev, rx, mainVars, envVars>>

\* The raw value in v, when it is a speed.
AsSpeed(v) == {x \in v : x \in 0..MaxSpeed}

\* raw_to_percentage_* of a raw value as publish_all_states publishes it,
\* then percentage_to_raw_* of that percentage.
RoundTrip ==
    LET r == th["api"]
        raw == IF "raw" \in DOMAIN r.snap THEN r.snap["raw"] ELSE {}
        speed_pct == {raw_to_percentage_speed(x) : x \in AsSpeed(raw)}
        light_level_pct == {raw_to_percentage_light(x) : x \in raw}
    IN
    /\ th["main"].pc = "pure"
    /\ r.pc = "idle"
    /\ raw # {}
    /\ th' = [th EXCEPT !["api"] =
          [r EXCEPT !.pc = "done", !.kind = "roundtrip",
                    !.pubs = << <<"speed", speed_pct>>,
                                <<"light_level", light_level_pct>> >>,
                    !.wrote = Put(Put(EmptyMap, "speed",
                                      {percentage_to_raw_speed(x) : x \in speed_pct}),
                                  "light_level",
                                  {percentage_to_raw_light(x) : x \in light_level_pct})]]
    /\ UNCHANGED <<sessionVars, dev, rx, mainVars, envVars>>

PureNext ==
    \/ \E m \in Getters : Decode(m)
    \/ Convert
    \/ RoundTrip

PureSpec == PureInit /\ [][PureNext]_vars

\* --------------------------------------------------------- the poller alone

\* poll_fan_states: `while polling_active:`, any number of passes.
PollTick ==
    /\ polling_active
    /\ th["poller"].pc = "idle"
    /\ th' = [th EXCEPT !["poller"] =
          Invoke([@ EXCEPT !.pc = "poll", !.kind = "power",
                           !.snap = Put(EmptyMap, "name", fan_name)],
                 "get_fan_power", "", last_light_level)]
    /\ UNCHANGED <<sessionVars, dev, rx, mainVars, envVars>>

\* A polling thread that an exception ends.
PollExceptEnds(r) ==
    [r EXCEPT !.pc = "dead", !.outcome = "error", !.step = "none", !.io = "none"]

\* poll_fan_states: `except Exception as e:` logs the error; the thread
\* goes on to its sleep.
PollExcept(r) ==
    [r EXCEPT !.pc = "done", !.outcome = "error", !.step = "none", !.io = "none"]

\* An exception is raised inside the `try:` of a pass: between two device
\* reads, at the cache replace, or in the publish after it.
PollRaise ==
    LET r == th["poller"] IN
    /\ \/ /\ r.pc = "poll"
          /\ r.io = "wait"
          /\ UNCHANGED fan_states
       \/ /\ r.pc = "store"
          /\ UNCHANGED fan_states
       \/ /\ r.pc = "store"
          /\ fan_states' = PollSnapshot(fan_states, r.snap)
    /\ th' = [th EXCEPT !["poller"] = PollExcept(r)]
    /\ UNCHANGED <<sessionVars, dev, rx, polling_active, mqtt_connected, envVars>>

\* The steps of the polling thread.
PollerStep ==
    \/ PollTick
    \/ CallStep("poller")
    \/ DiscoverRecv("poller")
    \/ Receive("poller")
    \/ PollStore
    \/ Return("poller")

PollNext ==
    \/ StartupConnect
    \/ StartupDiscover
    \/ StartThreads
    \/ PollerStep
    \/ PollRaise
    \/ BrokerConnect
    \/ BrokerDisconnect

\* The startup code, and the polling thread it starts, are scheduled: the
\* step that is theirs to take is taken (sleep returns, recvfrom returns or
\* times out after 5 s, nobody else holds the session's lock).
PollFairness ==
    WF_vars(StartupConnect \/ StartupDiscover \/ StartThreads
              \/ PollerStep \/ PollRaise)

PollSpec == Init /\ [][PollNext]_vars /\ PollFairness

\* ------------------------------------------------- the cache lock, by steps

\* A thread that takes fan_states_lock before its read-back.
AcquiresEarly(r) == r.pc \in {"get1", "get2", "patch", "patch1", "patch2", "store"}

\* The thread is at a `with fan_states_lock:`: its device reads are done.
AcquiresAt(r) == r.pc \in {"patch", "patch1", "patch2", "store"}

\* `with fan_states_lock:` is entered by thread t.
CacheAcquire(t) ==
    /\ AcquiresAt(th[t])
    /\ CacheLockFree
    /\ th' = [th EXCEPT ![t].holds = TRUE]
    /\ UNCHANGED <<sessionVars, dev, rx, mainVars, envVars>>

\* The program with the entry of `with fan_states_lock:` as a step of its
\* own, before the write and the release.
LockNext ==
    \/ StartupConnect
    \/ StartupDiscover
    \/ StartThreads
    \/ \E t \in ProgramThreads : CallStep(t)
    \/ \E t \in ProgramThreads : DiscoverRecv(t)
    \/ \E t \in ProgramThreads : Receive(t)
    \/ \E t \in ProgramThreads : OffRemember(t)
    \/ \E kind \in Kinds : \E body \in RestBodies(kind) : RestRequest(kind, body)
    \/ \E kind \in Kinds : \E payload \in MqttPayloads(kind) : MqttMessage(kind, payload)
    \/ PollStart
    \/ GetFanState
    \/ \E t \in ProgramThreads : CacheAcquire(t)
    \/ th["rest"].holds /\ RestPatch
    \/ th["mqtt"].holds /\ MqttPatch
    \/ th["poller"].holds /\ PollStore
    \/ \E t \in ProgramThreads : Return(t)
    \/ BrokerConnect
    \/ BrokerDisconnect

LockSpec == Init /\ [][LockNext]_vars

\* ---------------------------------------------------------------- shutdown

\* lifespan after `yield`: polling_active = False, then join(timeout=5) on
\* the polling thread, which returns when the thread ended or after 5 s.
\* The server runs this once it has stopped serving HTTP requests.
ShutdownStart ==
    /\ Up
    /\ th["rest"].pc = "idle"
    /\ polling_active' = FALSE
    /\ th' = [th EXCEPT !["main"].pc = "stopping"]
    /\ UNCHANGED <<sessionVars, dev, rx, fan_states, mqtt_connected, envVars>>

\* lifespan: senseme_client.disconnect(), called without the session's
\* lock, then mqtt_publisher.disconnect(). A recvfrom in progress on the
\* closed socket still gets what arrived, or times out.
ShutdownDisconnect ==
    LET d == DisconnectResult(socket, connected) IN
    /\ th["main"].pc = "stopping"
    /\ socket' = d.socket
    /\ connected' = d.connected
    /\ mqtt_connected' = FALSE
    /\ th' = [th EXCEPT !["main"].pc = "down"]
    /\ UNCHANGED <<lock, fan_name, last_light_level, dev, rx, fan_states,
                   polling_active, envVars>>

ShutdownNext ==
    \/ Next
    \/ ShutdownStart
    \/ ShutdownDisconnect

ShutdownSpec == Init /\ [][ShutdownNext]_vars

\* -------------------------------------------------------------- properties

\* A thread is between the send of a frame (its command's, or the discovery
\* request of its connect()) and the end of the receive that follows.
Outstanding(t) == th[t].io \in {"sent", "disc"}

\* C1 -- exclusivity: under every interleaving of the REST handlers, the MQTT
\* callbacks and the poller, at most one send_command is between sending its
\* datagram and the end of its receive, and that thread holds the session
\* lock; no thread sends while another's request is outstanding.
C1_Exclusive ==
    /\ \A t, u \in ProgramThreads : Outstanding(t) /\ Outstanding(u) => t = u
    /\ \A t \in ProgramThreads : Outstanding(t) => lock = t

\* C1, its case: a request is outstanding while another thread waits to send.
C1_Contended ==
    \E t, u \in ProgramThreads :
        t # u /\ th[t].io = "sent" /\ th[u].io = "wait" /\ lock = t

\* Thread t's send_command call ends in this step; th'[t].resp is what it
\* returned.
CallEnds(t) ==
    /\ th[t].io \in {"wait", "sent", "disc"}
    /\ th'[t] # th[t]
    /\ th'[t].io \notin {"sent", "disc"}

\* C2 -- recovery: a send_command that returns absent (send failure, receive
\* timeout, failed connect) leaves the session Disconnected, connected = False
\* and no socket; and every frame is sent on a session that is Connected with
\* a socket, so the call after a failure reconnects before it sends.
C2_Recovery ==
    [][\A t \in ProgramThreads :
          /\ (CallEnds(t) /\ th'[t].resp = {}) => (~connected' /\ ~socket')
          /\ (th[t].io = "wait" /\ Outstanding(t)') => (connected' /\ socket')
      ]_vars

\* C2, its case: the poller's first request failed, the session was left
\* Disconnected, and its next request has been sent on a new socket.
C2_Reconnected ==
    LET r == th["poller"] IN
    /\ r.pc = "poll"
    /\ "power" \in DOMAIN r.snap
    /\ r.snap["power"] = {}
    /\ r.io = "sent"
    /\ connected
    /\ socket

\* C3 -- light memory: when set_light_power("ON") follows a
\* set_light_power("OFF") that was called at a nonzero level L, with no
\* set_light_level call between them, the frame ON sends is the level-set
\* of exactly L.
C3_LightMemoryRestore ==
    LET r == th["api"] IN
    (r.m = "set_light_power" /\ r.marg = "ON" /\ off_level # {})
        => r.cmd = SetLevelCmd(Some(off_level))

\* C3, its case: ON was called after an OFF at a nonzero level.
C3_OnAfterOff ==
    LET r == th["api"] IN
    r.m = "set_light_power" /\ r.marg = "ON" /\ off_level # {} /\ r.io = "sent"

\* Every value get_all_states read is absent.
AllAbsent(snap) == \A k \in DOMAIN snap \ {"name"} : snap[k] = {}

\* C4 -- a poll pass in which every request failed leaves the cached
\* snapshot as it was and publishes nothing.
C4_UnreachablePollKeepsCache ==
    [][(/\ th["poller"].pc = "store"
        /\ AllAbsent(th["poller"].snap)
        /\ th'["poller"].pc = "done")
          => (fan_states' = fan_states /\ th'["poller"].pubs = <<>>)
      ]_vars

\* C4, its case: a pass that read nothing was stored.
C4_EmptyPassStored ==
    LET r == th["poller"] IN
    r.pc = "done" /\ AllAbsent(r.snap) /\ r.pubs # <<>>

\* C5 -- no torn cache: a handler of a light-power command, REST or MQTT,
\* has written both of light_power and light_level to the cache or neither;
\* no state shows one without the other.
C5_NoTornCache ==
    \A t \in {"rest", "mqtt"} :
        th[t].kind = "light_power"
            => ("light_power" \in DOMAIN th[t].wrote
                    <=> "light_level" \in DOMAIN th[t].wrote)

\* C5, its case: a light-power command has written the cache.
C5_LightPowerWritten ==
    \E t \in {"rest", "mqtt"} :
        th[t].kind = "light_power" /\ "light_power" \in DOMAIN th[t].wrote

\* The value under key k of dict d, if any, is absent or within lo..hi.
InRange(d, k, lo, hi) ==
    k \in DOMAIN d => (d[k] = {} \/ Some(d[k]) \in lo..hi)

\* C6 -- range of cached values: whatever the replies, every speed a getter
\* returned or the cache holds is absent or in 0..7, and every light level
\* is absent or in 0..16.
C6_CachedInRange ==
    /\ InRange(fan_states, "speed", 0, MaxSpeed)
    /\ InRange(fan_states, "light_level", 0, MaxLevel)
    /\ \A t \in ProgramThreads :
          /\ InRange(th[t].snap, "speed", 0, MaxSpeed)
          /\ InRange(th[t].snap, "light_level", 0, MaxLevel)

\* C6, its case: the cache holds a speed and a light level.
C6_Cached ==
    /\ "speed" \in DOMAIN fan_states
    /\ "light_level" \in DOMAIN fan_states
    /\ fan_states["speed"] # {}
    /\ fan_states["light_level"] # {}

\* C7 -- the remembered light level is in 1..16 in every reachable state, so
\* set_light_power("ON") passes set_light_level's range check.
C7_MemoryInRange ==
    /\ last_light_level \in 1..MaxLevel
    /\ \A t \in ProgramThreads :
          (th[t].m = "set_light_power" /\ th[t].marg = "ON") => th[t].cmd # <<>>

\* C7, its case: set_light_power("OFF") has replaced the remembered level.
C7_Remembered ==
    last_light_level # DEFAULT_LIGHT_LEVEL

\* C8 -- a command whose device setter failed (absent reply or local
\* rejection) ends with a failure outcome, has written nothing to the cache
\* and has published nothing, on the REST and on the MQTT path.
C8_FailedSetterTouchesNothing ==
    \A t \in {"rest", "mqtt"} :
        th[t].success = "False"
            => /\ th[t].pc = "done"
               /\ th[t].outcome = (IF t = "rest" THEN "500" ELSE "set_failed")
               /\ th[t].wrote = EmptyMap
               /\ th[t].pubs = <<>>

\* C8, its case: a setter failed while the publisher was connected and the
\* cache held a snapshot.
C8_SetterFailed ==
    \E t \in {"rest", "mqtt"} :
        th[t].success = "False" /\ mqtt_connected /\ fan_states # EmptyMap

\* The direct caller's call of this step is m(arg) with m one of ms.
Calls(ms) ==
    th["api"].pc = "idle" /\ th'["api"].pc # "idle" /\ th'["api"].m \in ms

\* The call of this step returned False at once: no frame, no connect, the
\* session as it was.
RejectedLocally ==
    /\ th'["api"].pc = "done"
    /\ th'["api"].outcome = "False"
    /\ th'["api"].cmd = <<>>
    /\ UNCHANGED <<connected, socket, lock, fan_name, last_light_level, dev, rx>>

\* C9 -- set_fan_speed(s) with s outside 0..7 and set_light_level(l) with l
\* outside 0..16 return False without a datagram, without a connect, and
\* with connected, socket, fan_name and _last_light_level unchanged.
C9_OutOfRangeRejected ==
    [][/\ (Calls({"set_fan_speed"}) /\ IntOf(th'["api"].marg) \notin 0..MaxSpeed)
            => RejectedLocally
       /\ (Calls({"set_light_level"}) /\ IntOf(th'["api"].marg) \notin 0..MaxLevel)
            => RejectedLocally
      ]_vars

\* C9, its case: set_fan_speed(8) returned False on a connected session.
C9_Rejected ==
    LET r == th["api"] IN
    /\ r.pc = "done"
    /\ r.m = "set_fan_speed"
    /\ r.marg = "8"
    /\ r.outcome = "False"
    /\ connected

\* C10 -- set_fan_power, set_fan_whoosh and set_light_power called with a
\* token other than ON or OFF send no datagram and return False.
C10_BadTokenRejected ==
    [][(/\ Calls({"set_fan_power", "set_fan_whoosh", "set_light_power"})
        /\ th'["api"].marg \notin {"ON", "OFF"})
          => RejectedLocally
      ]_vars

\* C10, its case: the frame of set_fan_power("TOGGLE") is on the wire.
C10_BadTokenSent ==
    LET r == th["api"] IN
    r.m \in {"set_fan_power", "set_fan_whoosh"} /\ r.marg = "TOGGLE" /\ r.io = "sent"

\* C11 -- the value a REST command returns with its success is the value
\* it read back from the device and patched into the cache, for power,
\* speed, light power and light level.
C11_RestReturnsReadBack ==
    LET r == th["rest"] IN
    (r.pc = "done" /\ r.outcome = "200") => r.ret = r.wrote[r.kind]

\* C11, its case: a REST command has answered 200 after a read-back that
\* returned a value.
C11_RestSucceeded ==
    LET r == th["rest"] IN
    r.pc = "done" /\ r.outcome = "200" /\ r.wrote[r.kind] # {}

\* Every publication under key in pubs is the percentage, by conv, of a raw
\* value published in pubs under rawkey.
PercentForm(pubs, key, rawkey, conv(_)) ==
    \A i \in 1..Len(pubs) :
        pubs[i][1] = key
            => \E j \in 1..Len(pubs) :
                   /\ pubs[j][1] = rawkey
                   /\ pubs[j][2] # {}
                   /\ pubs[i][2] = {conv(Some(pubs[j][2]))}

\* C12 -- publish form: whenever the poller or a command, REST or MQTT,
\* publishes a speed or a light level, the percentage goes out under
\* speed / light_level and the raw value under speed_raw / light_level_raw;
\* the keys speed and light_level never carry the raw value.
C12_PublishForm ==
    \A t \in ProgramThreads :
        /\ PercentForm(th[t].pubs, "speed", "speed_raw", raw_to_percentage_speed)
        /\ PercentForm(th[t].pubs, "light_level", "light_level_raw",
                       raw_to_percentage_light)

\* C12, its case: a command has published the speed it read back, and the
\* poller has published a snapshot with a speed.
C12_SpeedPublished ==
    /\ \E t \in {"rest", "mqtt"} :
          \E i \in 1..Len(th[t].pubs) :
              th[t].pubs[i][1] = "speed" /\ th[t].pubs[i][2] # {}
    /\ \E i \in 1..Len(th["poller"].pubs) : th["poller"].pubs[i][1] = "speed_raw"

\* The MQTT handler of `kind` got an integer payload in lo..hi.
MqttPayloadIn(kind, lo, hi) ==
    LET r == th["mqtt"] IN
    r.kind = kind /\ IsInt(r.arg) /\ IntOf(r.arg) \in lo..hi

\* The MQTT handler is not refused, and calls its setter with value v.
MqttSets(v) ==
    LET r == th["mqtt"] IN
    r.outcome # "invalid" /\ (r.pc = "set" => r.marg = ToStr(v))

\* C13 -- asynchronous ingress: an integer speed payload in 8..100 is
\* converted with percentage_to_raw_speed, and an integer light_level
\* payload in 17..100 with percentage_to_raw_light, before the setter is
\* called; a payload within the raw range goes to the setter unchanged.
C13_PercentHeuristic ==
    LET p == IntOf(th["mqtt"].arg) IN
    /\ MqttPayloadIn("speed", MaxSpeed + 1, 100) => MqttSets(percentage_to_raw_speed(p))
    /\ MqttPayloadIn("light_level", MaxLevel + 1, 100)
          => MqttSets(percentage_to_raw_light(p))
    /\ MqttPayloadIn("speed", 0, MaxSpeed) => MqttSets(p)
    /\ MqttPayloadIn("light_level", 0, MaxLevel) => MqttSets(p)

\* C13, its case: the payload 50 arrived on the speed command topic and the
\* handler has ended.
C13_PercentPayload ==
    MqttPayloadIn("speed", MaxSpeed + 1, 100) /\ th["mqtt"].pc = "done"

\* The keys of a snapshot the poller stores.
RefreshKeys == {Keys[i] : i \in 1..Len(Keys)}

\* C14 -- a read of the full state that returns a map returns one that a
\* poll refresh produced, with every key of a snapshot; until the first
\* refresh every read signals "not yet available".
C14_ReadOnlyAfterRefresh ==
    LET r == th["rest"] IN
    (r.kind = "state" /\ r.outcome = "200") => DOMAIN r.snap = RefreshKeys

\* C14, its case: a read of the full state answered 503 on an empty cache.
C14_ReadBeforeRefresh ==
    th["rest"].kind = "state" /\ th["rest"].outcome = "503" /\ ops = MaxOps

\* C15 -- shutdown: once it starts no new poll pass begins; the socket is
\* released only when no send_command call is in progress; and after the
\* release the session never sends a datagram nor opens a socket again.
C15_Shutdown ==
    [][ /\ (th["main"].pc \in {"stopping", "down"}
             => (th["poller"].pc = "idle" => th'["poller"].pc = "idle"))
        /\ (th["main"].pc = "stopping" /\ th'["main"].pc = "down"
             => lock = Free)
        /\ (th["main"].pc = "down"
             => /\ \A t \in ProgramThreads :
                     ~Outstanding(t) => ~Outstanding(t)'
                /\ ~socket => ~socket') ]_vars

\* C15, its case: the socket was released while a poll pass was under way.
C15_ReleasedDuringPass ==
    th["main"].pc = "down" /\ ~socket /\ th["poller"].pc = "poll"

\* A handler at its end whose setter succeeded and that did not get every
\* read-back value out to the broker: the publisher was not connected, or a
\* publish_state call failed.
SinkFault(r, n) == r.pc = "done" /\ r.success = "True" /\ Len(r.pubs) < n

\* C16 -- a sink fault never changes the outcome of a command: with the
\* publisher disconnected or publish_state failing, a command whose setter
\* succeeded still answers success (REST: 200; MQTT: the outcome of its
\* read-back alone) and its cache patch is applied.
C16_SinkFaultHarmless ==
    /\ LET r == th["rest"] IN
         (r.kind \in Kinds /\ SinkFault(r, Len(RestKeys(r.kind))))
           => /\ r.outcome = "200"
              /\ \A i \in 1..Len(RestKeys(r.kind)) :
                    /\ RestKeys(r.kind)[i] \in DOMAIN r.wrote
                    /\ r.wrote[RestKeys(r.kind)[i]] = r.snap[RestKeys(r.kind)[i]]
    /\ LET r == th["mqtt"] IN
         (r.kind \in Kinds /\ SinkFault(r, 1) /\ ReadBackOk(r.snap[r.kind]))
           => /\ r.outcome = "ok"
              /\ r.kind \in DOMAIN r.wrote
              /\ r.wrote[r.kind] = r.snap[r.kind]

\* C16, its case: a REST command ended after a publish_state call failed
\* on a connected publisher.
C16_PublishFailed ==
    LET r == th["rest"] IN
    /\ SinkFault(r, 1)
    /\ r.sink # <<>>
    /\ ~r.sink[1]

\* C16, its case: an MQTT command ended with the publisher disconnected.
C16_Disconnected ==
    LET r == th["mqtt"] IN
    SinkFault(r, 1) /\ ReadBackOk(r.snap[r.kind]) /\ r.sink = <<>>

Framed(frame) ==
    frame # <<>> /\ Head(frame) = "(" /\ frame[Len(frame)] = ")"

\* The fields between the parentheses of a framed reply.
Inner(frame) == Split(SubSeq(frame, 2, Len(frame) - 1))

\* What getter m needs of a reply: the number of fields, a numeric value.
NeedFields(m) == IF m = "get_fan_power" THEN 4 ELSE 5
NeedsNumber(m) == m \in {"get_fan_speed", "get_light_level", "get_light_power"}

\* A reply that getter m cannot take a value from: a parenthesis is
\* missing, fields are missing, or the value is not a number.
Malformed(frame, m) ==
    \/ ~Framed(frame)
    \/ Len(Inner(frame)) < NeedFields(m)
    \/ NeedsNumber(m) /\ ~IsInt(FieldStr(Inner(frame)[NeedFields(m)]))

\* C18 -- every malformed reply frame (a parenthesis missing, too few
\* fields, a non-numeric value) makes the typed getters return absent.
C18_MalformedAbsent ==
    LET r == th["api"] IN
    (r.pc = "done" /\ r.kind = "decode" /\ Malformed(Some(r.resp), r.m))
      => r.snap["value"] = {}

\* C18, its case: a getter was given a framed reply whose value is not a
\* number and returned absent.
C18_NonNumericDecoded ==
    LET r == th["api"] IN
    /\ r.pc = "done"
    /\ r.kind = "decode"
    /\ r.m = "get_fan_speed"
    /\ Framed(Some(r.resp))
    /\ Malformed(Some(r.resp), r.m)
    /\ r.snap["value"] = {}

\* r = floor(x / 100)
IsFloorPercent(r, x) == r * 100 <= x /\ x < (r + 1) * 100

\* C19 -- for every percentage p in 0..100, percentage_to_raw_speed(p) is
\* floor((p*7+50)/100) and lies in 0..7, and percentage_to_raw_light(p) is
\* floor((p*16+50)/100) and lies in 0..16.
C19_PercentToRaw ==
    LET r == th["api"] IN
    (r.pc = "done" /\ r.kind = "convert")
      => LET p == Some(r.ret)
             speed == Some(r.snap["speed"])
             level == Some(r.snap["light_level"])
         IN  /\ IsFloorPercent(speed, p * 7 + 50)
             /\ speed \in 0..MaxSpeed
             /\ IsFloorPercent(level, p * 16 + 50)
             /\ level \in 0..MaxLevel

\* C19, its case: 100 percent was converted.
C19_FullScale ==
    LET r == th["api"] IN
    r.pc = "done" /\ r.kind = "convert" /\ r.ret = {100}

\* Thread t's connect() ends its discovery in this step without a usable
\* reply: nothing had arrived, or a fault hit the receive.
DiscoveryFails(t) ==
    /\ th[t].io = "disc"
    /\ th'[t].io # "disc"
    /\ rx = <<>> \/ faults' = faults + 1

\* C20 -- connect() fails open: with no name configured, a discovery that
\* gets no reply or an unparsable one leaves the empty string as the name;
\* the startup connect() ends connected with a socket, and a send_command
\* that connected this way sends its command framed "<;command>" on a
\* connected session.
C20_ConnectFailsOpen ==
    [][ \A t \in Threads :
          DiscoveryFails(t)
            => /\ fan_name' = {""}
               /\ t = "main" => connected' /\ socket' /\ th'[t].io = "booted"
               /\ th'[t].io = "sent"
                    => /\ connected'
                       /\ socket'
                       /\ th'[t].frame = <<"<", ";">> \o SubSeq(th'[t].frame, 3, Len(th'[t].frame))
                       /\ th'[t].frame = FullCommand({""}, th'[t].cmd) ]_vars

\* C20, its case: a command is on the wire with the empty name, sent by a
\* call whose connect() discovered nothing.
C20_SentWithEmptyName ==
    \E t \in ProgramThreads :
       /\ th[t].io = "sent"
       /\ fan_name = {""}
       /\ connected
       /\ th[t].frame = FullCommand({""}, th[t].cmd)

\* Thread t's connect() sends the discovery frame in this step.
SendsDiscovery(t) == th[t].io # "disc" /\ th'[t].io = "disc"

\* C21 -- identity is resolved once: the discovery frame is sent only while
\* no identity has been set (the first connect), and an identity that has
\* been set, the empty one included, never changes.
C21_IdentityResolvedOnce ==
    [][ /\ \A t \in Threads : SendsDiscovery(t) => fan_name = {}
        /\ fan_name # {} => fan_name' = fan_name ]_vars

\* C21, its case: a connect() after a transport fault is discovering again
\* on a session whose first discovery fell back to the empty identity.
C21_Rediscovering ==
    \E t \in ProgramThreads : th[t].io = "disc" /\ fan_name = {""}

\* Thread t is in a device round trip: it waits for the session's lock,
\* holds it, or is between a send and the end of its receive.
InRoundTrip(t) == th[t].io \in {"wait", "sent", "disc"} \/ lock = t

\* C22 -- lock discipline: a thread inside `with fan_states_lock:` is never
\* in a device round trip and never holds or waits for the session's lock,
\* and one thread at most is inside.
C22_LockDiscipline ==
    \A t \in ProgramThreads :
       th[t].holds
         => /\ ~InRoundTrip(t)
            /\ \A u \in ProgramThreads \ {t} : ~th[u].holds

\* C22, its case: one thread holds the cache lock while another holds the
\* session's lock in a round trip.
C22_BothLocksHeld ==
    \E t \in ProgramThreads : \E u \in ProgramThreads \ {t} :
       th[t].holds /\ lock = u /\ th[u].io = "sent"

\* The cache holds the device's state in every field read from the device.
CacheMatchesDevice ==
    /\ DOMAIN fan_states = RefreshKeys
    /\ fan_states["power"] = {dev.power}
    /\ fan_states["speed"] = {dev.speed}
    /\ fan_states["whoosh"] = {dev.whoosh}
    /\ fan_states["light_level"] = {dev.level}
    /\ fan_states["light_power"] = LightPowerOf({dev.level})

\* From some point on the fan is reachable and no pass ends in the poller's
\* exception handler.
QuietEnvironment ==
    <>[](reachable /\ th["poller"].outcome # "error")

\* C23 -- eventual consistency: with the fan reachable from some point on,
\* its state unchanged and no command arriving, the fairly scheduled poller
\* brings the cache to the device's state in every field, for good.
C23_EventuallyConsistent ==
    QuietEnvironment => <>[]CacheMatchesDevice

\* C23, its case: a pass stored a snapshot equal to the device's state.
C23_Consistent ==
    CacheMatchesDevice /\ reachable /\ th["poller"].outcome = "polled"

\* The REST handler r and the MQTT handler m are at their end after the
\* same command: the same field and setter argument, a setter that
\* succeeded, the same read-back values and the same publisher results.
SameCommand(r, m) ==
    /\ r.pc = "done"
    /\ m.pc = "done"
    /\ r.kind \in Kinds
    /\ r.kind = m.kind
    /\ r.marg = m.marg
    /\ r.success = "True"
    /\ m.success = "True"
    /\ r.snap = m.snap
    /\ r.sink = m.sink

\* C24 -- ingress equivalence: for the same field, value and device
\* replies, an absent read-back included, the REST path and the MQTT path
\* write the same to the cache and publish the same.
C24_IngressEquivalent ==
    SameCommand(th["rest"], th["mqtt"])
      => /\ th["rest"].wrote = th["mqtt"].wrote
         /\ th["rest"].pubs = th["mqtt"].pubs

\* C24, its case: the same command ended on both paths, its read-back
\* present and published.
C24_BothPathsDone ==
    /\ SameCommand(th["rest"], th["mqtt"])
    /\ th["rest"].pubs # <<>>
    /\ \A k \in DOMAIN th["rest"].snap : th["rest"].snap[k] # {}

\* The brightness the handlers' documentation gives for ON: "ON=2, OFF=0".
DocumentedOnLevel == 2

\* Thread t, in the setter of a light-power command, has its
\* LIGHT;LEVEL;SET frame on the wire.
LightPowerSetSent(t) ==
    /\ th[t].kind = "light_power"
    /\ th[t].pc = "set"
    /\ th[t].io = "sent"
    /\ IsSet(th[t].cmd)

\* C25 -- a light-power command sets the level to 2 for ON and to 0 for
\* OFF, by REST and by MQTT.
C25_OnSetsDefaultLevel ==
    \A t \in {"rest", "mqtt"} :
       LightPowerSetSent(t)
         => th[t].cmd = SetLevelCmd(IF th[t].marg = "ON" THEN DocumentedOnLevel ELSE 0)

\* C25, its case: a light-power ON command has set the light's level.
C25_OnSent ==
    \E t \in {"rest", "mqtt"} :
       LightPowerSetSent(t) /\ th[t].marg = "ON" /\ dev.level > 0

\* The datagram is a reply about what command c addresses: its second and
\* third fields are c's first two, as in every answer of the fan to c.
AnswersCommand(frame, c) ==
    LET parts == Parts(frame) IN
    /\ Len(parts) >= 3
    /\ FieldStr(parts[2]) = c[1]
    /\ FieldStr(parts[3]) = c[2]

\* Thread t's send_command returns a response in this step.
ReturnsReply(t) ==
    th[t].io = "sent" /\ th'[t].io # "sent" /\ th'[t].resp # {}

\* C26 -- reply attribution: the response send_command returns for a
\* request is the fan's answer to that request, never a datagram that
\* answers an earlier one (a late discovery reply included).
C26_ReplyAttribution ==
    [][ \A t \in ProgramThreads :
          ReturnsReply(t) => AnswersCommand(Some(th'[t].resp), th[t].cmd) ]_vars

\* C26, its case: the reply to a discovery request was returned to a
\* command as its response.
C26_DiscoveryReplyReturned ==
    \E t \in ProgramThreads :
       /\ th[t].resp = DevReply(dev, DiscoveryCmd)
       /\ th[t].io # "sent"

\* The cache holds a value for key k.
Present(d, k) == k \in DOMAIN d /\ d[k] # {}

\* C27 -- snapshot coherence: whenever the cache holds both light_power and
\* light_level, light_power is ON exactly when light_level > 0.
C27_LightCoherent ==
    (Present(fan_states, "light_power") /\ Present(fan_states, "light_level"))
      => (fan_states["light_power"] = {"ON"} <=> Some(fan_states["light_level"]) > 0)

\* C27, its case: a light command has written to a cache that holds both
\* light fields.
C27_LightFieldsCached ==
    /\ Present(fan_states, "light_power")
    /\ Present(fan_states, "light_level")
    /\ \E t \in {"rest", "mqtt"} :
          th[t].pc = "done" /\ "light_level" \in DOMAIN th[t].wrote

\* Command thread t has patched key k of the cache with a value it read
\* back, the cache still holds it, and a poll pass is about to store its
\* snapshot; the pass and the command are all that ever ran and no datagram
\* was lost, late or foreign, so the device changed only through t's
\* command, before t's read-back.
PatchedBeforeStore(t, k) ==
    /\ faults = 0
    /\ ops = 2
    /\ th["poller"].pc = "store"
    /\ th[t].pc = "done"
    /\ k \in DOMAIN th[t].wrote
    /\ th[t].wrote[k] # {}
    /\ k \in DOMAIN fan_states
    /\ fan_states[k] = th[t].wrote[k]

\* C28 -- no stale overwrite: once a command has patched a field of the
\* cache with a value read back from the device, a poll pass that read the
\* field earlier does not replace it; with a single command and no network
\* fault every value that differs from the read-back was read before it.
C28_NoStaleOverwrite ==
    [][ \A t \in {"rest", "mqtt"} : \A k \in RefreshKeys :
          PatchedBeforeStore(t, k)
            => (k \in DOMAIN fan_states' /\ fan_states'[k] = fan_states[k]) ]_vars

\* C28, its case: a poll pass is about to store its snapshot after a
\* command patched the cache with its read-back.
C28_StoreAfterPatch ==
    \E t \in {"rest", "mqtt"} : \E k \in RefreshKeys : PatchedBeforeStore(t, k)

\* Thread t is in set_light_power("OFF"), past the read of the level.
InOffWrite(t) ==
    /\ th[t].m = "set_light_power"
    /\ th[t].marg = "OFF"
    /\ th[t].step = "io"
    /\ th[t].cmd = SetLevelCmd(0)

\* In this step the level-0 command of t's set_light_power("OFF") reaches
\* the fan and turns off a light that was on.
OffWriteApplied(t) ==
    /\ InOffWrite(t)
    /\ th[t].io # "sent"
    /\ th'[t].io = "sent"
    /\ dev.level > 0
    /\ dev'.level = 0

\* C29 -- set_light_power("OFF") is atomic with respect to other commands:
\* the level in the light memory when the call sets the level to 0 is the
\* level the device had immediately before, also when another thread's light
\* command ran between the call's read of the level and its write of 0.
C29_OffAtomic ==
    [][ \A t \in ProgramThreads :
          (faults = 0 /\ OffWriteApplied(t)) => last_light_level = dev.level ]_vars

\* C29, its case: set_light_power("OFF") has written level 0 while another
\* thread is in a light command.
C29_OffDuringLightCommand ==
    \E t \in {"rest", "mqtt"} : \E u \in {"rest", "mqtt"} \ {t} :
       /\ faults = 0
       /\ InOffWrite(t)
       /\ th[t].io = "sent"
       /\ dev.level = 0
       /\ th[u].pc # "idle"
       /\ th[u].kind \in {"light_power", "light_level"}

\* ------------------------------------------- the message-delivery loop

\* The threads that call publish_state here: the polling thread and the
\* thread client.loop_start() started, which runs _on_message and with it
\* the command handlers.
Publishers == {"poller", "mqtt"}

\* The loop thread is in its own iteration, not inside a callback: only
\* then it writes queued packets and reads acknowledgements.
LoopFree == th["mqtt"].pc = "idle"

\* Thread record r is inside publish_state, in wait_for_publish.
Waiting(r) == r.pc \in {"publish", "publish1", "publish2"}

\* The key an MQTT handler publishes in this update_state_and_publish.
WaitKey(r) == IF r.pc = "publish1" THEN r.kind ELSE "light_level"

\* The MQTT handler after publish_state returned `ok`.
AfterPublish(r, ok, last) ==
    MqttAfterUpdate(
        [r EXCEPT !.pc = IF r.pc = "publish1" THEN "patch1" ELSE "patch2",
                  !.sink = r.sink \o <<ok>>,
                  !.pubs = r.pubs \o PublishOne(ok, WaitKey(r), r.snap[WaitKey(r)])],
        last)

\* The polling thread after one publish_state of publish_all_states
\* returned `ok`: the next one, or the end of the pass.
AfterPublishAll(r, ok) ==
    LET all == PublishAll(TRUE, r.wrote)
        i == Len(r.sink) + 1
        next == [r EXCEPT !.sink = r.sink \o <<ok>>,
                          !.pubs = IF ok THEN Append(r.pubs, all[i]) ELSE r.pubs]
    IN  IF i = Len(all)
          THEN [next EXCEPT !.pc = "done", !.outcome = "polled"]
          ELSE next

\* update_state_and_publish on the loop thread: the patch of one key, then
\* publish_state up to wait_for_publish.
DeliveryPatch ==
    LET r == th["mqtt"]
        key == IF r.pc = "patch1" THEN r.kind ELSE "light_level"
        patched == [r EXCEPT !.wrote = Put(r.wrote, key, r.snap[key]),
                             !.holds = FALSE]
    IN
    /\ r.pc \in {"patch1", "patch2"}
    /\ fan_states' = Put(fan_states, key, r.snap[key])
    /\ th' = [th EXCEPT !["mqtt"] =
          IF mqtt_connected
            THEN [patched EXCEPT !.pc = IF r.pc = "patch1" THEN "publish1"
                                                            ELSE "publish2"]
            ELSE Advance("mqtt", MqttAfterUpdate(patched, last_light_level),
                         last_light_level)]
    /\ UNCHANGED <<sessionVars, dev, rx, polling_active, mqtt_connected, envVars>>

\* poll_fan_states: replace the cache, then publish_all_states up to the
\* wait_for_publish of its first publish_state.
DeliveryStore ==
    LET r == th["poller"]
        stored == [r EXCEPT !.wrote = r.snap, !.holds = FALSE]
    IN
    /\ r.pc = "store"
    /\ fan_states' = PollSnapshot(fan_states, r.snap)
    /\ th' = [th EXCEPT !["poller"] =
          IF mqtt_connected
            THEN [stored EXCEPT !.pc = "publish"]
            ELSE [stored EXCEPT !.pc = "done", !.outcome = "polled"]]
    /\ UNCHANGED <<sessionVars, dev, rx, polling_active, mqtt_connected, envVars>>

\* publish_state of thread t returns `ok`.
PublishReturns(t, ok) ==
    /\ th' = [th EXCEPT ![t] =
          IF t = "mqtt"
            THEN Advance("mqtt", AfterPublish(th[t], ok, last_light_level),
                         last_light_level)
            ELSE AfterPublishAll(th[t], ok)]
    /\ UNCHANGED <<sessionVars, dev, rx, mainVars, reachable, ops, off_level>>

\* The loop thread writes the packet thread t queued and reads its
\* acknowledgement: wait_for_publish returns.
LoopAck(t) ==
    /\ Waiting(th[t])
    /\ LoopFree
    /\ PublishReturns(t, TRUE)
    /\ UNCHANGED faults

\* client.publish or wait_for_publish raises (a fault): publish_state logs
\* the error and returns False.
PublishRaise(t) ==
    /\ Waiting(th[t])
    /\ faults < MaxFaults
    /\ faults' = faults + 1
    /\ PublishReturns(t, FALSE)

\* The steps of the polling thread and of the loop thread.
DeliveryStep ==
    \/ PollStart
    \/ \E t \in Publishers : CallStep(t)
    \/ \E t \in Publishers : DiscoverRecv(t)
    \/ \E t \in Publishers : Receive(t)
    \/ \E t \in Publishers : OffRemember(t)
    \/ DeliveryPatch
    \/ DeliveryStore
    \/ \E t \in Publishers : LoopAck(t)
    \/ \E t \in Publishers : Return(t)

DeliveryNext ==
    \/ StartupConnect
    \/ StartupDiscover
    \/ StartThreads
    \/ BrokerConnect
    \/ \E kind \in Kinds : \E payload \in MqttPayloads(kind) : MqttMessage(kind, payload)
    \/ DeliveryStep
    \/ \E t \in Publishers : PublishRaise(t)

\* The startup code and both threads are scheduled, the broker accepts the
\* connection and acknowledges what it is sent; when a message arrives and
\* whether a publish raises is up to the environment.
DeliveryFairness ==
    /\ WF_vars(StartupConnect \/ StartupDiscover \/ StartThreads \/ BrokerConnect)
    /\ WF_vars(DeliveryStep)

DeliverySpec == Init /\ [][DeliveryNext]_vars /\ DeliveryFairness

\* C30 -- message-delivery liveness: every command handler invoked from
\* _on_message eventually returns, also when it publishes through
\* publish_state on the loop thread, so the loop is free again to deliver
\* the next message.
C30_HandlersReturn ==
    (th["mqtt"].pc # "idle") ~> (th["mqtt"].pc = "idle")

\* C30, its case: a handler on the loop thread is inside publish_state,
\* waiting for its publish to be acknowledged.
C30_HandlerWaits ==
    th["mqtt"].pc \in {"publish1", "publish2"}

\* C31 -- the raw-to-percentage-to-raw round trip is the identity on the
\* raw ranges: percentage_to_raw_speed(raw_to_percentage_speed(r)) = r for
\* every r in 0..7 and percentage_to_raw_light(raw_to_percentage_light(l)) = l
\* for every l in 0..16, every intermediate percentage lying in 0..100.
C31_RoundTrip ==
    LET r == th["api"] IN
    (r.pc = "done" /\ r.kind = "roundtrip")
      => LET raw == r.snap["raw"]
             speed_pct == r.pubs[1][2]
             light_level_pct == r.pubs[2][2]
         IN  /\ light_level_pct # {}
             /\ light_level_pct \subseteq Percentages
             /\ r.wrote["light_level"] = raw
             /\ (Some(raw) \in 0..MaxSpeed) => speed_pct # {}
             /\ speed_pct \subseteq Percentages
             /\ r.wrote["speed"] = AsSpeed(raw)

\* C31, its case: a raw value that is a speed and a level, neither 0 nor
\* full scale, went through both round trips.
C31_MidScale ==
    LET r == th["api"] IN
    /\ r.pc = "done"
    /\ r.kind = "roundtrip"
    /\ r.snap["raw"] = {3}
    /\ r.wrote["speed"] = {3}
    /\ r.wrote["light_level"] = {3}

====
